---- MODULE Spec2Model ----
(***************************************************************************)
(* Model of packages/core/src/browser/decorations-service.ts:              *)
(* DecorationProviderWrapper (one cache per registered provider) and       *)
(* DecorationsServiceImpl (the registry of wrappers).                      *)
(*                                                                         *)
(* JavaScript runs every handler to completion, so each handler is one     *)
(* action.  A promise returned by provideDecorations settles in a later    *)
(* action (PromiseResolved / PromiseRejected).                             *)
(***************************************************************************)
EXTENDS Integers, Sequences, FiniteSets, TLC

(* ------------------------------ bounds --------------------------------- *)
\* number of registerDecorationsProvider calls
MaxProviders == 2
\* number of provideDecorations invocations in one run; a change
\* notification names at most that many uris
MaxCalls == 2

(* ---------------------------- identifiers ------------------------------ *)
\* resource uris as paths; "a/b" is a child of "a", "z" is unrelated to both
IdSeq == << <<"a">>, <<"a", "b">>, <<"z">> >>
Ids == {IdSeq[i] : i \in DOMAIN IdSeq}
NoId == <<>>

IsDescendant(d, a) ==
  /\ Len(d) > Len(a)
  /\ SubSeq(d, 1, Len(a)) = a

(* ----------------------------- JS values ------------------------------- *)
\* what a cache slot or a variable of type
\*   DecorationDataRequest | Decoration | undefined     can hold
Undefined == [t |-> "undefined", r |-> 0, bubble |-> FALSE]
Request(r) == [t |-> "request", r |-> r, bubble |-> FALSE]
Deco(b) == [t |-> "deco", r |-> 0, bubble |-> b]
\* a key that is not in the tree at all
NoKey == [t |-> "nokey", r |-> 0, bubble |-> FALSE]

Decorations == {Deco(b) : b \in BOOLEAN}
\* every invocation returns at most one promise
ReqIds == 1..MaxCalls
Values == {Undefined} \cup Decorations \cup {Request(r) : r \in ReqIds}

\* item instanceof DecorationDataRequest
IsRequest(v) == v.t = "request"
\* JS truthiness of a value of that type: only undefined is falsy
Truthy(v) == v.t # "undefined"

(* ------------------------- TernarySearchTree --------------------------- *)
\* a tree is a function Ids -> Values \cup {NoKey}
EmptyTree == [k \in Ids |-> NoKey]
TstGet(tree, key) == IF tree[key] = NoKey THEN Undefined ELSE tree[key]
TstSet(tree, key, v) == [tree EXCEPT ![key] = v]
TstDelete(tree, key) == [tree EXCEPT ![key] = NoKey]
TstClear(tree) == EmptyTree
\* the keys below `key`, in key order
SuperKeys(tree, key) ==
  SelectSeq(IdSeq, LAMBDA k : tree[k] # NoKey /\ IsDescendant(k, key))
\* findSuperstr: undefined when nothing lies below key, else an iterator
\* over the values below key
TstFindSuperstr(tree, key) ==
  LET ks == SuperKeys(tree, key)
  IN  [found |-> ks # <<>>, keys |-> ks]

(* ------------------------------- state --------------------------------- *)
VARIABLES
  data,        \* DecorationsServiceImpl.data: the wrappers, in array order
  wdata,       \* wdata[w]: DecorationProviderWrapper.data of wrapper w
  subscribed,  \* subscribed[w]: wrapper w's onDidChange listener is attached
  nReg,        \* number of wrappers constructed so far
  reqs,        \* reqs[r]: the promise of DecorationDataRequest r
  nCalls,      \* number of provideDecorations invocations so far
  op,          \* the handler that ran last, with its arguments
  fired,       \* events it fired on onDidChangeDecorationsEmitter
  uriFired,    \* uris it fired on onDidChangeDecorationsDelayedEmitter
  calls,       \* provideDecorations invocations it made: <<wrapper, uri>>
  result,      \* what getDecoration returned
  threw        \* the handler ended by an exception of the provider

vars == <<data, wdata, subscribed, nReg, reqs, nCalls, op, fired, uriFired,
          calls, result, threw>>

Wrappers == 1..MaxProviders

NoRequest == [w |-> 0, id |-> NoId, status |-> "none", cancelled |-> FALSE]

\* what provideDecorations can do when invoked: return a decoration or
\* undefined, return a promise, or throw
Outcomes ==
  {[k |-> "sync", v |-> v] : v \in Decorations \cup {Undefined}}
    \cup {[k |-> "async", v |-> Undefined], [k |-> "throw", v |-> Undefined]}
\* the provider's answers to the calls one handler makes, in call order: at
\* most n of them, and an exception is the last one (it ends the handler)
Answers(n) ==
  {ocs \in UNION {[1..k -> Outcomes] : k \in 0..n} :
     \A i \in 1..(Len(ocs) - 1) : ocs[i].k # "throw"}

\* how a promise can end: resolved with a decoration or undefined, rejected
\* with the cancellation error or with any other error
Errors == {"Canceled", "Other"}

(* ------------------ DecorationProviderWrapper methods ------------------ *)
\* The methods work on a record s of what a running handler has done so far:
\*   wd, rq       the wrappers' trees and the promises
\*   uf           uris fired on uriEmitter
\*   calls        provideDecorations invocations
\*   threw        an exception is propagating
\*   overflow     the run's bounds are exceeded (the step is dropped)
\*   ret          the method's return value
\*   out          the callback invocations of getOrRetrieve
Start ==
  [wd |-> wdata, rq |-> reqs, uf |-> <<>>, calls |-> <<>>, threw |-> FALSE,
   overflow |-> FALSE, ret |-> Undefined, out |-> <<>>]

\* mutant: keepItem fires only for a decoration, whatever it overwrites
KeepItemNoOld(s, w, uri, dataIn) ==
  LET deco == IF Truthy(dataIn) THEN dataIn ELSE Undefined
      s1 == [s EXCEPT !.wd[w] = TstSet(@, uri, deco), !.ret = deco]
  IN  IF Truthy(deco)
        THEN [s1 EXCEPT !.uf = Append(@, uri)]
        ELSE s1

\* keepItem(uri, data)
KeepItem(s, w, uri, dataIn) ==
  LET deco == IF Truthy(dataIn) THEN dataIn ELSE Undefined
      old == TstGet(s.wd[w], uri)
      s1 == [s EXCEPT !.wd[w] = TstSet(@, uri, deco), !.ret = deco]
  IN  IF Truthy(deco) \/ Truthy(old)
        THEN [s1 EXCEPT !.uf = Append(@, uri)]
        ELSE s1

\* the request object a new promise gets: the first one not yet used
FreeReqs(rq) == {r \in ReqIds : rq[r].status = "none"}
NewReq(rq) == CHOOSE r \in FreeReqs(rq) : \A q \in FreeReqs(rq) : r <= q

\* fetchData(uri); ocs are the provider's answers in this handler
FetchData(s, w, uri, ocs) ==
  LET oc == IF Len(s.calls) < Len(ocs) THEN ocs[Len(s.calls) + 1]
                                        ELSE [k |-> "none", v |-> Undefined]
      pendingRequest == TstGet(s.wd[w], uri)
      s1 == IF IsRequest(pendingRequest)
              THEN [s EXCEPT !.rq[pendingRequest.r].cancelled = TRUE,
                             !.wd[w] = TstDelete(@, uri)]
              ELSE s
      s2 == [s1 EXCEPT !.calls = Append(@, <<w, uri>>)]
  IN  CASE oc.k = "none" -> [s2 EXCEPT !.overflow = TRUE]
        [] oc.k = "throw" -> [s2 EXCEPT !.threw = TRUE]
        [] oc.k = "sync" -> KeepItem(s2, w, uri, oc.v)
        [] oc.k = "async" ->
             LET r == NewReq(s2.rq)
             IN  [s2 EXCEPT
                    !.rq[r] = [w |-> w, id |-> uri, status |-> "inflight",
                               cancelled |-> FALSE],
                    !.wd[w] = TstSet(@, uri, Request(r)),
                    !.ret = Undefined]

\* A promise that has settled and that no tree holds any more is garbage:
\* its request object is free again.
Settle(rq, wd, r) ==
  IF \E w \in Wrappers, k \in Ids : wd[w][k] = Request(r)
    THEN [rq EXCEPT ![r].status = "done"]
    ELSE [rq EXCEPT ![r] = NoRequest]

\* the request objects of settled promises that the trees wd no longer hold
\* are free again
Collect(rq, wd) ==
  [r \in ReqIds |->
     IF /\ rq[r].status = "done"
        /\ \A w \in Wrappers, k \in Ids : wd[w][k] # Request(r)
       THEN NoRequest ELSE rq[r]]

\* mutant: the completion callbacks do not compare against the request
IsCurrentAlways(tree, uri, r) == TRUE

\* mutant: the completion callbacks accept any request as theirs
IsCurrentAnyRequest(tree, uri, r) == IsRequest(TstGet(tree, uri))

\* this.data.get(uri) === request
IsCurrent(tree, uri, r) == TstGet(tree, uri) = Request(r)

\* mutant: a pending entry counts as unknown too
IsUnknownOrPending(item) == item = Undefined \/ item.t = "request"

\* item === undefined  (getOrRetrieve: unknown -> trigger request)
IsUnknown(item) == item = Undefined

\* item && !(item instanceof DecorationDataRequest)
IsResolved(item) == Truthy(item) /\ ~IsRequest(item)

\* the callback invocations for the (resolved) children
RECURSIVE Children(_, _, _, _)
Children(tree, w, keys, i) ==
  IF i > Len(keys) THEN <<>>
  ELSE LET value == tree[keys[i]]
           rest == Children(tree, w, keys, i + 1)
       IN  IF IsResolved(value)
             THEN <<[deco |-> value, isChild |-> TRUE, w |-> w, id |-> keys[i]]>>
                    \o rest
             ELSE rest

\* getOrRetrieve(uri, includeChildren, callback)
GetOrRetrieve(s, w, uri, includeChildren, ocs) ==
  LET item0 == TstGet(s.wd[w], uri)
      s1 == IF IsUnknown(item0) THEN FetchData(s, w, uri, ocs) ELSE s
      item == IF IsUnknown(item0) THEN s1.ret ELSE item0
      s2 == IF IsResolved(item)
              THEN [s1 EXCEPT !.out = Append(@, [deco |-> item, isChild |-> FALSE,
                                                  w |-> w, id |-> uri])]
              ELSE s1
      iter == TstFindSuperstr(s2.wd[w], uri)
  IN  IF s1.threw \/ s1.overflow THEN s1
      ELSE IF includeChildren /\ iter.found
        THEN [s2 EXCEPT !.out = @ \o Children(s2.wd[w], w, iter.keys, 1)]
        ELSE s2

\* mutant: knowsAbout answers by the keys of the tree, whatever they hold
KnowsAboutAnyKey(tree, uri) == \E k \in Ids : (k = uri \/ IsDescendant(k, uri)) /\ tree[k] # NoKey

\* mutant: knowsAbout looks at the exact key only
KnowsAboutExact(tree, uri) == Truthy(TstGet(tree, uri))

\* knowsAbout(uri)
KnowsAbout(tree, uri) ==
  Truthy(TstGet(tree, uri)) \/ TstFindSuperstr(tree, uri).found

(* ----------------------------- the emitter ----------------------------- *)
\* The events fired on onDidChangeDecorationsEmitter.  A listener is called
\* inside fire(); `affected` is what affectsResource answers to a listener
\* that asks right then, tree being the wrapper's tree at that moment.
\* `lazy` events keep reading the wrapper's tree when asked later.
AllEvent == [kind |-> "all", w |-> 0, affected |-> Ids]
KnowsEvent(w, tree) ==
  [kind |-> "knowsAbout", w |-> w,
   affected |-> {id \in Ids : KnowsAbout(tree, id)}]
\* affectsResource(uri) of event ev, asked now
AffectsResource(ev, uri) ==
  IF ev.kind = "all" THEN TRUE ELSE KnowsAbout(wdata[ev.w], uri)

(* ------------------------------ handlers ------------------------------- *)
\* op: name of the handler; w, id, flag (includeChildren), uris: its
\* arguments; r, cancelled, err: the request whose promise settled, whether
\* its token was cancelled by then, and the rejection it settled with
NoOp == [name |-> "init", w |-> 0, id |-> NoId, flag |-> FALSE, r |-> 0,
         uris |-> <<>>, cancelled |-> FALSE, err |-> ""]

Init ==
  /\ data = <<>>
  /\ wdata = [w \in Wrappers |-> EmptyTree]
  /\ subscribed = [w \in Wrappers |-> FALSE]
  /\ nCalls = 0
  /\ nReg = 0
  /\ reqs = [r \in ReqIds |-> NoRequest]
  /\ op = NoOp
  /\ fired = <<>>
  /\ uriFired = <<>>
  /\ calls = <<>>
  /\ result = <<>>
  /\ threw = FALSE

\* registerDecorationsProvider(provider), up to the return of the handle
RegisterDecorationsProvider ==
  /\ nReg < MaxProviders
  /\ LET wrapper == nReg + 1
     IN  /\ nReg' = wrapper
         /\ wdata' = [wdata EXCEPT ![wrapper] = EmptyTree]
         /\ subscribed' = [subscribed EXCEPT ![wrapper] = TRUE]
         /\ data' = Append(data, wrapper)
         /\ op' = [NoOp EXCEPT !.name = "register", !.w = wrapper]
  /\ fired' = <<AllEvent>>
  /\ uriFired' = <<>>
  /\ calls' = <<>>
  /\ result' = <<>>
  /\ threw' = FALSE
  /\ UNCHANGED <<reqs, nCalls>>

\* Array.prototype.indexOf: 0-based index of the first occurrence, or -1
IndexOf(arr, x) ==
  IF \E i \in 1..Len(arr) : arr[i] = x
    THEN (CHOOSE i \in 1..Len(arr) :
            arr[i] = x /\ \A j \in 1..(i - 1) : arr[j] # x) - 1
    ELSE -1

\* Array.prototype.splice(start, 1): a negative start counts from the end
Splice1(arr, start) ==
  LET len == Len(arr)
      from == IF start < 0
                THEN (IF len + start < 0 THEN 0 ELSE len + start)
                ELSE (IF start > len THEN len ELSE start)
  IN  [i \in 1..(IF from < len THEN len - 1 ELSE len) |->
         IF i <= from THEN arr[i] ELSE arr[i + 1]]

\* mutant: the closure disposes the wrapper that splice took out of the
\* array instead of its own
DisposeHandleRemoved(wrapper) ==
  LET at == IndexOf(data, wrapper)
      removed == IF at >= 0 THEN {wrapper}
                 ELSE IF data = <<>> THEN {} ELSE {data[Len(data)]}
  IN  /\ wrapper \in 1..nReg
      /\ data' = Splice1(data, at)
      /\ fired' = <<KnowsEvent(wrapper, wdata[wrapper])>>
      /\ subscribed' = [w \in Wrappers |-> subscribed[w] /\ w \notin removed]
      /\ wdata' = [w \in Wrappers |->
                     IF w \in removed THEN TstClear(wdata[w]) ELSE wdata[w]]
      /\ op' = [NoOp EXCEPT !.name = "dispose", !.w = wrapper]
      /\ uriFired' = <<>>
      /\ calls' = <<>>
      /\ result' = <<>>
      /\ threw' = FALSE
      /\ reqs' = Collect(reqs, wdata')
      /\ UNCHANGED <<nReg, nCalls>>

\* dispose() of the handle registerDecorationsProvider returned for wrapper
DisposeHandle(wrapper) ==
  /\ wrapper \in 1..nReg
  /\ data' = Splice1(data, IndexOf(data, wrapper))
  /\ fired' = <<KnowsEvent(wrapper, wdata[wrapper])>>
     \* wrapper.dispose()
  /\ subscribed' = [subscribed EXCEPT ![wrapper] = FALSE]
  /\ wdata' = [wdata EXCEPT ![wrapper] = TstClear(@)]
  /\ op' = [NoOp EXCEPT !.name = "dispose", !.w = wrapper]
  /\ uriFired' = <<>>
  /\ calls' = <<>>
  /\ result' = <<>>
  /\ threw' = FALSE
  /\ reqs' = Collect(reqs, wdata')
  /\ UNCHANGED <<nReg, nCalls>>

\* the calls a handler that makes at most n can still make in this run
Budget(n) == IF n < MaxCalls - nCalls THEN n ELSE MaxCalls - nCalls

\* the loop of the selective branch: fetchData for uris[i], uris[i+1], ...
RECURSIVE FetchAll(_, _, _, _, _)
FetchAll(s, w, uris, ocs, i) ==
  IF i > Len(uris) \/ s.threw \/ s.overflow THEN s
  ELSE FetchAll(FetchData(s, w, uris[i], ocs), w, uris, ocs, i + 1)

UriArrays == UNION {[1..n -> Ids] : n \in 0..MaxCalls}

\* mutant: the flush drops the settled entries and keeps the pending ones
OnDidChangeFlushSettled(w) ==
  /\ subscribed[w]
  /\ wdata' = [wdata EXCEPT
                 ![w] = [k \in Ids |-> IF IsRequest(@[k]) THEN @[k] ELSE NoKey]]
  /\ fired' = <<AllEvent>>
  /\ op' = [NoOp EXCEPT !.name = "flush", !.w = w]
  /\ uriFired' = <<>>
  /\ calls' = <<>>
  /\ result' = <<>>
  /\ threw' = FALSE
  /\ reqs' = Collect(reqs, wdata')
  /\ UNCHANGED <<data, subscribed, nReg, nCalls>>

\* the listener on provider.onDidChange, called with undefined: flush
OnDidChangeFlush(w) ==
  /\ subscribed[w]
  /\ wdata' = [wdata EXCEPT ![w] = TstClear(@)]
  /\ fired' = <<AllEvent>>
  /\ op' = [NoOp EXCEPT !.name = "flush", !.w = w]
  /\ uriFired' = <<>>
  /\ calls' = <<>>
  /\ result' = <<>>
  /\ threw' = FALSE
  /\ reqs' = Collect(reqs, wdata')
  /\ UNCHANGED <<data, subscribed, nReg, nCalls>>

\* the listener on provider.onDidChange, called with an array of uris
OnDidChangeUris(w) ==
  /\ subscribed[w]
  /\ \E uris \in UriArrays : \E ocs \in Answers(Budget(Len(uris))) :
       LET s == FetchAll(Start, w, uris, ocs, 1)
       IN  /\ ~s.overflow
           /\ Len(s.calls) = Len(ocs)
           /\ nCalls' = nCalls + Len(s.calls)
           /\ wdata' = s.wd
           /\ reqs' = Collect(s.rq, s.wd)
           /\ uriFired' = s.uf
           /\ calls' = s.calls
           /\ threw' = s.threw
           /\ op' = [NoOp EXCEPT !.name = "change", !.w = w, !.uris = uris]
  /\ fired' = <<>>
  /\ result' = <<>>
  /\ UNCHANGED <<data, subscribed, nReg>>

\* mutant: the loop runs over this.data from its last wrapper to its first
RECURSIVE QueryAllReverse(_, _, _, _, _)
QueryAllReverse(s, uri, includeChildren, ocs, i) ==
  IF i > Len(data) \/ s.threw \/ s.overflow THEN s
  ELSE QueryAllReverse(GetOrRetrieve(s, data[Len(data) + 1 - i], uri,
                                     includeChildren, ocs),
                       uri, includeChildren, ocs, i + 1)

\* the loop of getDecoration over this.data
RECURSIVE QueryAll(_, _, _, _, _)
QueryAll(s, uri, includeChildren, ocs, i) ==
  IF i > Len(data) \/ s.threw \/ s.overflow THEN s
  ELSE QueryAll(GetOrRetrieve(s, data[i], uri, includeChildren, ocs),
                uri, includeChildren, ocs, i + 1)

\* mutant: the callback collects every decoration it is given
CollectedAll(c) == TRUE

\* the callback of getDecoration: !isChild || deco.bubble
Collected(c) == ~c.isChild \/ c.deco.bubble

\* getDecoration(uri, includeChildren)
GetDecoration ==
  /\ \E uri \in Ids, includeChildren \in BOOLEAN :
     \E ocs \in Answers(Budget(Len(data))) :
       LET s == QueryAll(Start, uri, includeChildren, ocs, 1)
       IN  /\ ~s.overflow
           /\ Len(s.calls) = Len(ocs)
           /\ nCalls' = nCalls + Len(s.calls)
           /\ wdata' = s.wd
           /\ reqs' = Collect(s.rq, s.wd)
           /\ uriFired' = s.uf
           /\ calls' = s.calls
           /\ threw' = s.threw
           /\ result' = IF s.threw THEN <<>> ELSE SelectSeq(s.out, Collected)
           /\ op' = [NoOp EXCEPT !.name = "getDecoration", !.id = uri,
                                 !.flag = includeChildren]
  /\ fired' = <<>>
  /\ UNCHANGED <<data, subscribed, nReg>>

\* the then-callback of request r: its promise resolved with v
PromiseResolved(r) ==
  /\ reqs[r].status = "inflight"
  /\ \E v \in Decorations \cup {Undefined} :
       LET w == reqs[r].w
           uri == reqs[r].id
           s == IF IsCurrent(wdata[w], uri, r)
                  THEN KeepItem(Start, w, uri, v)
                  ELSE Start
       IN  /\ wdata' = s.wd
           /\ uriFired' = s.uf
           /\ op' = [NoOp EXCEPT !.name = "resolved", !.w = w, !.id = uri,
                                 !.r = r, !.cancelled = reqs[r].cancelled]
  /\ reqs' = Settle(reqs, wdata', r)
  /\ nCalls' = nCalls
  /\ fired' = <<>>
  /\ calls' = <<>>
  /\ result' = <<>>
  /\ threw' = FALSE
  /\ UNCHANGED <<data, subscribed, nReg>>

\* mutant: the catch-callback takes every error for the cancellation
IsCanceledAny(err) == TRUE

\* err instanceof Error && err.name === 'Canceled' && err.message === 'Canceled'
IsCanceled(err) == err = "Canceled"

\* the catch-callback of request r: its promise rejected with err
PromiseRejected(r) ==
  /\ reqs[r].status = "inflight"
  /\ \E err \in Errors :
       LET w == reqs[r].w
           uri == reqs[r].id
       IN  /\ wdata' = IF ~IsCanceled(err) /\ IsCurrent(wdata[w], uri, r)
                         THEN [wdata EXCEPT ![w] = TstDelete(@, uri)]
                         ELSE wdata
           /\ op' = [NoOp EXCEPT !.name = "rejected", !.w = w, !.id = uri,
                                 !.r = r, !.cancelled = reqs[r].cancelled,
                                 !.err = err]
  /\ reqs' = Settle(reqs, wdata', r)
  /\ nCalls' = nCalls
  /\ fired' = <<>>
  /\ uriFired' = <<>>
  /\ calls' = <<>>
  /\ result' = <<>>
  /\ threw' = FALSE
  /\ UNCHANGED <<data, subscribed, nReg>>

Next ==
  \/ RegisterDecorationsProvider
  \/ \E w \in Wrappers : DisposeHandle(w)
  \/ \E w \in Wrappers : OnDidChangeFlush(w)
  \/ \E w \in Wrappers : OnDidChangeUris(w)
  \/ GetDecoration
  \/ \E r \in ReqIds : PromiseResolved(r)
  \/ \E r \in ReqIds : PromiseRejected(r)

Spec == Init /\ [][Next]_vars

\* the handle of wrapper w was disposed: the subscription ends there
Disposed(w) == w <= nReg /\ ~subscribed[w]

TypeOK ==
  /\ nReg \in 0..MaxProviders
  /\ nCalls \in 0..MaxCalls
  /\ \A i \in 1..Len(data) : data[i] \in 1..nReg
  /\ \A w \in Wrappers : \A k \in Ids : wdata[w][k] \in Values \cup {NoKey}

(* ------------------------------ properties ----------------------------- *)
Range(f) == {f[i] : i \in DOMAIN f}
\* wrapper w is in the service's array
Active(w) == \E i \in 1..Len(data) : data[i] = w
\* the keys a query for id looks at: id and its descendants
Under(id) == {k \in Ids : k = id \/ IsDescendant(k, id)}
Pending(r) == reqs[r].status = "inflight"

\* C1: when the promise of a fetch for X resolves to a present decoration
\* while its request is still the entry for X, an event whose
\* affectsResource(X) is true is fired on onDidChangeDecorations.
C1_SettledPresent ==
  /\ op.name = "resolved"
  /\ uriFired = <<op.id>>
  /\ wdata[op.w][op.id] \in Decorations
C1_SettleFiresChangeEvent ==
  C1_SettledPresent =>
    \E i \in 1..Len(fired) :
      op.id \in fired[i].affected /\ AffectsResource(fired[i], op.id)

\* C2: the completion (resolve or reject) of a superseded request - one
\* whose token fetchData cancelled when it started the next fetch for the
\* same uri - writes nothing into any tree and fires no event; and a
\* superseded request is never the entry of its uri again.
C2_StaleSettlementImmunity ==
  /\ [][(op'.name \in {"resolved", "rejected"} /\ op'.cancelled)
          => /\ wdata' = wdata
             /\ fired' = <<>>
             /\ uriFired' = <<>>]_vars
  /\ [](\A r \in ReqIds :
          (Pending(r) /\ reqs[r].cancelled)
            => wdata[reqs[r].w][reqs[r].id] # Request(r))
\* a superseded fetch A resolved after its successor B had settled a
\* decoration, or while B is still pending
C2_Witness ==
  /\ op.name = "resolved"
  /\ op.cancelled
  /\ \/ wdata[op.w][op.id] \in Decorations
     \/ /\ IsRequest(wdata[op.w][op.id])
        /\ Pending(wdata[op.w][op.id].r)

\* C3: while a tree holds the absence marker for X (X was resolved to "no
\* decoration" and no notification, flush or disposal has touched it since),
\* getDecoration(X, *) does not invoke that provider for X.
C3_AbsentIsCached ==
  [][\A w \in Wrappers :
       (/\ op'.name = "getDecoration"
        /\ Active(w)
        /\ wdata[w][op'.id] = Undefined)
         => <<w, op'.id>> \notin Range(calls')]_vars

\* C4: disposing a handle that was already disposed changes neither the
\* service's array of wrappers nor any wrapper's tree.
C4_DisposeIdempotent ==
  [][(op'.name = "dispose" /\ Disposed(op'.w))
       => (data' = data /\ wdata' = wdata)]_vars

\* C5 as stated: a query for an identifier whose entry is a pending request
\* starts a second fetch and cancels the first.
C5_SecondQueryCancelsFirst ==
  [][\A w \in Wrappers :
       (/\ op'.name = "getDecoration"
        /\ Active(w)
        /\ IsRequest(wdata[w][op'.id])
        /\ Pending(wdata[w][op'.id].r))
         => /\ <<w, op'.id>> \in Range(calls')
            /\ reqs'[wdata[w][op'.id].r].cancelled]_vars
\* C5 as amended: a query that finds a pending request for the identifier
\* invokes the provider for it no second time and leaves the request
\* uncancelled and in place; when that request resolves its entry is settled;
\* a request is cancelled only by a change notification that names uris.
C5_PendingQueryStartsNoFetch ==
  /\ [][\A w \in Wrappers :
          (/\ op'.name = "getDecoration"
           /\ Active(w)
           /\ IsRequest(wdata[w][op'.id]))
            => /\ <<w, op'.id>> \notin Range(calls')
               /\ wdata'[w][op'.id] = wdata[w][op'.id]
               /\ reqs'[wdata[w][op'.id].r] = reqs[wdata[w][op'.id].r]]_vars
  /\ [][(/\ op'.name = "resolved"
         /\ IsRequest(wdata[op'.w][op'.id])
         /\ wdata[op'.w][op'.id].r = op'.r)
          => wdata'[op'.w][op'.id] \in Decorations \cup {Undefined}]_vars
  /\ [][(\E r \in ReqIds : Pending(r) /\ ~reqs[r].cancelled /\ reqs'[r].cancelled)
          => op'.name = "change"]_vars
\* a query found the request of an earlier query still pending
C5_Witness ==
  /\ op.name = "getDecoration"
  /\ calls = <<>>
  /\ \E w \in Wrappers :
       /\ Active(w)
       /\ IsRequest(wdata[w][op.id])
       /\ Pending(wdata[w][op.id].r)
       /\ ~reqs[wdata[w][op.id].r].cancelled

\* C6: after the listener ran for a notification without uris, the
\* wrapper's tree has no entry at all and exactly one event was fired on
\* onDidChangeDecorations, whose affectsResource is true for every uri.
C6_FlushSemantics ==
  op.name = "flush" =>
    /\ \A k \in Ids : wdata[op.w][k] = NoKey
    /\ Len(fired) = 1
    /\ \A id \in Ids : id \in fired[1].affected /\ AffectsResource(fired[1], id)
\* a flush of a tree that held a pending request
C6_Witness ==
  /\ op.name = "flush"
  /\ \E r \in ReqIds : Pending(r) /\ reqs[r].w = op.w /\ ~reqs[r].cancelled

\* C7: a notification naming the uris S invokes provideDecorations for
\* exactly the uris of S and leaves the entries of all other uris unchanged.
C7_SelectiveInvalidation ==
  [][op'.name = "change"
       => /\ {calls'[i][2] : i \in 1..Len(calls')} = Range(op'.uris)
          /\ \A i \in 1..Len(calls') : calls'[i][1] = op'.w
          /\ \A k \in Ids \ Range(op'.uris) :
               wdata'[op'.w][k] = wdata[op'.w][k]]_vars

\* C8: the event fired when the handle of wrapper P is disposed answers,
\* to a listener asking during the emission, true for every uri for which
\* P's tree holds a pending request or a decoration at the uri or below it,
\* and false for every uri with no key at or below it; it is no "all" event.
HoldsData(tree, id) == \E k \in Under(id) : tree[k] \in Values \ {Undefined}
NeverSeen(tree, id) == \A k \in Under(id) : tree[k] = NoKey
C8_RemovalScoping ==
  [][op'.name = "dispose"
       => /\ Len(fired') = 1
          /\ fired'[1].kind = "knowsAbout"
          /\ fired'[1].w = op'.w
          /\ \A id \in Ids :
               /\ HoldsData(wdata[op'.w], id) => id \in fired'[1].affected
               /\ NeverSeen(wdata[op'.w], id) => id \notin fired'[1].affected]_vars
\* P was disposed holding data below "a" and nothing at "a" or at "z"
C8_Witness ==
  /\ op.name = "dispose"
  /\ fired[1].affected = {<<"a">>, <<"a", "b">>}

\* C9: in the result of a getDecoration(A, includeChildren) that returns,
\* a decoration d settled at a strict descendant D of A in an active
\* wrapper appears as that wrapper's contribution for D exactly if
\* includeChildren and d.bubble; a decoration settled at A itself appears.
Contribution(w, id, isChild) ==
  [deco |-> wdata[w][id], isChild |-> isChild, w |-> w, id |-> id]
C9_BubbleFiltering ==
  (op.name = "getDecoration" /\ ~threw) =>
    \A w \in Wrappers : Active(w) =>
      /\ \A k \in Ids :
           (IsDescendant(k, op.id) /\ wdata[w][k] \in Decorations)
             => (Contribution(w, k, TRUE) \in Range(result)
                   <=> (op.flag /\ wdata[w][k].bubble))
      /\ wdata[w][op.id] \in Decorations
           => Contribution(w, op.id, FALSE) \in Range(result)
\* a query including children returned a bubbling decoration of a child
\* while a decoration without bubble is settled at the uri itself
C9_Witness ==
  /\ op.name = "getDecoration"
  /\ ~threw
  /\ op.flag
  /\ \E i, j \in 1..Len(result) :
       /\ result[i].isChild /\ result[i].deco.bubble
       /\ ~result[j].isChild /\ ~result[j].deco.bubble

\* C10: getDecoration and registerDecorationsProvider never end by an
\* exception of the provider.
C10_FaultContainment ==
  op.name \in {"getDecoration", "register"} => ~threw

\* C11: registerDecorationsProvider pushes the new wrapper at the end of
\* the service's array and fires one event whose affectsResource is true
\* for every uri; and every getDecoration run while the handle of a
\* registered wrapper is not yet disposed queries that wrapper: the wrapper
\* is in the array and the loop of getDecoration gets to it.
Queried(w) ==
  /\ Active(w)
  /\ threw => IndexOf(data, w) <= IndexOf(data, calls[Len(calls)][1])
C11_RegistrationTakesEffect ==
  /\ op.name = "register"
       => /\ data # <<>>
          /\ data[Len(data)] = op.w
          /\ fired = <<AllEvent>>
          /\ \A id \in Ids : AffectsResource(fired[1], id)
  /\ op.name = "getDecoration"
       => \A w \in 1..nReg : subscribed[w] => Queried(w)

\* C12: the wrappers stay in the array in the order of their registration
\* whatever was registered and disposed; the result of a getDecoration that
\* returns lists the contributions wrapper by wrapper in that order, within
\* one wrapper the decoration of the uri itself before those of its
\* descendants; and it holds every contribution exactly once, equal
\* decorations of two wrappers included: nothing is merged or ranked.
Contributions ==
  {Contribution(w, op.id, FALSE) :
     w \in {x \in Wrappers : Active(x) /\ wdata[x][op.id] \in Decorations}}
  \cup
  {Contribution(c[1], c[2], TRUE) :
     c \in {x \in Wrappers \X Ids :
              /\ Active(x[1])
              /\ op.flag
              /\ IsDescendant(x[2], op.id)
              /\ wdata[x[1]][x[2]] \in Decorations
              /\ wdata[x[1]][x[2]].bubble}}
C13_FailureRetry ==
  /\ [][(/\ op'.name = "rejected"
         /\ op'.err = "Other"
         /\ wdata[op'.w][op'.id] = Request(op'.r))
          => /\ wdata'[op'.w][op'.id] = NoKey
             /\ fired' = <<>>
             /\ uriFired' = <<>>]_vars
  /\ [][(/\ op.name = "rejected"
         /\ op.err = "Other"
         /\ wdata[op.w][op.id] = NoKey
         /\ subscribed[op.w]
         /\ op'.name = "getDecoration"
         /\ op'.id = op.id)
          => <<op.w, op.id>> \in Range(calls')]_vars

\* a handler settled the entry of id in wrapper w: the entry is no request
\* after it
SettledNow(w, id) == wdata'[w][id] \in Decorations \cup {Undefined}

\* C14 as stated: keepItem fires the event of the uri exactly if the value
\* is a decoration or a decoration was settled for the uri before. A
\* promise that resolves to no decoration for a uri that never had one (its
\* fetch is the only call any provider ever got) fires nothing; a
\* notification that settles a uri synchronously fires exactly if the new
\* or the replaced entry is a decoration.
C14_SettleNotificationRule ==
  /\ [][(op'.name = "resolved" /\ wdata[op'.w][op'.id] = Request(op'.r))
          => /\ wdata'[op'.w][op'.id] \in Decorations
                  => uriFired' = <<op'.id>>
             /\ (wdata'[op'.w][op'.id] = Undefined /\ nCalls = 1)
                  => uriFired' = <<>>]_vars
  /\ [][(/\ op'.name = "change"
         /\ Len(op'.uris) = 1
         /\ ~threw'
         /\ ~IsRequest(wdata[op'.w][op'.uris[1]])
         /\ SettledNow(op'.w, op'.uris[1]))
          => (uriFired' = op'.uris
                <=> \/ wdata'[op'.w][op'.uris[1]] \in Decorations
                    \/ wdata[op'.w][op'.uris[1]] \in Decorations)]_vars
\* C14 as amended: keepItem fires the event of the uri exactly if the value
\* is a decoration or the entry it overwrites is a decoration or a request.
\* The then-callback overwrites its own request, so a promise that resolves
\* while current always fires, also for no decoration; one that is no
\* longer current settles and fires nothing. A synchronous answer is
\* written after the pending request was deleted, so it fires exactly if
\* it is a decoration or it replaces a decoration.
C14_SettleFiresOnOverwrite ==
  /\ [][op'.name = "resolved"
          => IF wdata[op'.w][op'.id] = Request(op'.r)
               THEN SettledNow(op'.w, op'.id) /\ uriFired' = <<op'.id>>
               ELSE wdata' = wdata /\ uriFired' = <<>>]_vars
  /\ [][(/\ op'.name = "change"
         /\ Len(op'.uris) = 1
         /\ ~threw'
         /\ SettledNow(op'.w, op'.uris[1]))
          => (uriFired' = op'.uris
                <=> \/ wdata'[op'.w][op'.uris[1]] \in Decorations
                    \/ wdata[op'.w][op'.uris[1]] \in Decorations)]_vars
  /\ [][op'.name = "getDecoration"
          => /\ \A i \in 1..Len(uriFired') : uriFired'[i] = op'.id
             /\ Len(uriFired') =
                  Cardinality({w \in Wrappers :
                                 /\ <<w, op'.id>> \in Range(calls')
                                 /\ wdata'[w][op'.id] \in Decorations})]_vars
\* a promise resolved to no decoration while its request was the entry,
\* and the event of its uri was fired
C14_Witness ==
  /\ op.name = "resolved"
  /\ uriFired = <<op.id>>
  /\ wdata[op.w][op.id] = Undefined

\* C15 as stated: knowsAbout(id) of a wrapper is true exactly if its tree
\* has a key - holding a request, a decoration or the absence marker - at
\* id or at a descendant of id.
C15_KnowsAboutAnyEntry ==
  \A w \in Wrappers : \A id \in Ids :
    KnowsAbout(wdata[w], id) <=> \E k \in Under(id) : wdata[w][k] # NoKey
\* C15 as amended: knowsAbout(id) is true when the tree holds a request or
\* a decoration at id or at a descendant of id; it is false when the tree
\* has no key at id or below, and also when its only key there is id
\* itself holding the absence marker.
C15_KnowsAboutDataOrBelow ==
  \A w \in Wrappers : \A id \in Ids :
    /\ HoldsData(wdata[w], id) => KnowsAbout(wdata[w], id)
    /\ NeverSeen(wdata[w], id) => ~KnowsAbout(wdata[w], id)
    /\ (/\ wdata[w][id] = Undefined
        /\ \A k \in Under(id) \ {id} : wdata[w][k] = NoKey)
         => ~KnowsAbout(wdata[w], id)
\* a tree whose only key at or below some uri is the uri itself, settled
\* to no decoration, while the tree holds a decoration elsewhere
C15_Witness ==
  \E w \in Wrappers : \E id, other \in Ids :
    /\ wdata[w][id] = Undefined
    /\ \A k \in Under(id) \ {id} : wdata[w][k] = NoKey
    /\ wdata[w][other] \in Decorations
    /\ KnowsAbout(wdata[w], other)

\* C16: after the disposal of a handle has returned, the predicate of the
\* event it fired still answers for every uri what knowsAbout answered
\* when the event was fired, before the wrapper's tree was cleared.
C16_RemovalScopeIsFixed ==
  op.name = "dispose" =>
    \A id \in Ids :
      AffectsResource(fired[1], id) <=> id \in fired[1].affected

\* C17: a flush or a disposal leaves the pending requests as they are -
\* pending, their tokens not cancelled. A request abandoned this way (not
\* cancelled, no longer the entry of its uri) stays abandoned, and when its
\* promise resolves or rejects no tree changes and no event is fired,
\* whatever the entry of its uri has become since. A wrapper whose handle
\* was disposed is no longer in the service's array, its provider is
\* invoked by no handler and its notifications run no listener.
Abandoned(r) ==
  /\ Pending(r)
  /\ ~reqs[r].cancelled
  /\ wdata[reqs[r].w][reqs[r].id] # Request(r)
C17_AbandonedRequestsInert ==
  /\ [][op'.name \in {"flush", "dispose"}
          => \A r \in ReqIds : Pending(r) => reqs'[r] = reqs[r]]_vars
  /\ [][\A r \in ReqIds :
          (Abandoned(r) /\ reqs'[r].status = "inflight")
            => /\ ~reqs'[r].cancelled
               /\ wdata'[reqs[r].w][reqs[r].id] # Request(r)]_vars
  /\ [][(/\ op'.name \in {"resolved", "rejected"}
         /\ ~op'.cancelled
         /\ wdata[op'.w][op'.id] # Request(op'.r))
          => /\ wdata' = wdata
             /\ fired' = <<>>
             /\ uriFired' = <<>>]_vars
  /\ [](\A w \in Wrappers : Disposed(w) => ~Active(w))
  /\ [][\A i \in 1..Len(calls') : ~Disposed(calls'[i][1])]_vars
  /\ [][op'.name \in {"flush", "change"} => ~Disposed(op'.w)]_vars
\* the promise of a request abandoned by a flush or a disposal resolved
\* while a later request for its uri was pending or had settled a decoration
C17_Witness ==
  /\ op.name = "resolved"
  /\ ~op.cancelled
  /\ uriFired = <<>>
  /\ wdata[op.w][op.id] \in Values \ {Undefined}

\* C18: a getDecoration(id, includeChildren) invokes provideDecorations
\* only of wrappers in the array, of each at most once, only for id itself
\* and only if the wrapper's tree had no key for id; the entries of the
\* descendants of id stay as they were, and those that are a request or
\* the absence marker add nothing to the result.
C18_QueryFetchesOnlyUnknown ==
  [][op'.name = "getDecoration"
       => /\ \A i \in 1..Len(calls') :
               /\ calls'[i][2] = op'.id
               /\ Active(calls'[i][1])
               /\ wdata[calls'[i][1]][op'.id] = NoKey
          /\ \A i, j \in 1..Len(calls') :
               calls'[i][1] = calls'[j][1] => i = j
          /\ \A w \in Wrappers : \A k \in Ids :
               IsDescendant(k, op'.id)
                 => /\ wdata'[w][k] = wdata[w][k]
                    /\ wdata[w][k] \notin Decorations
                         => \A i \in 1..Len(result') :
                              ~(result'[i].w = w /\ result'[i].id = k)]_vars

\* C19: a handler that runs for wrapper P - the listener of its provider's
\* notification (flush or selective), a completion callback of one of its
\* requests, the disposal of its handle - changes no entry of the tree of
\* any other wrapper Q, cancels or frees no pending request of Q and does
\* not invoke Q's provideDecorations.
C19_CacheIsolation ==
  [][op'.name \in {"flush", "change", "resolved", "rejected", "dispose"}
       => \A q \in Wrappers \ {op'.w} :
            /\ wdata'[q] = wdata[q]
            /\ \A i \in 1..Len(calls') : calls'[i][1] # q
            /\ \A r \in ReqIds :
                 (Pending(r) /\ reqs[r].w = q) => reqs'[r] = reqs[r]]_vars
\* a handler of one wrapper ran while another wrapper held a request or a
\* decoration
C19_Witness ==
  /\ op.name \in {"flush", "change", "resolved", "rejected", "dispose"}
  /\ \E q \in Wrappers \ {op.w} : \E k \in Ids :
       wdata[q][k] \in Values \ {Undefined}

\* C20 as stated: after the promise of a request resolved or rejected, with
\* whatever error, the request is no longer the entry of its uri.
C20_NoPendingOutlivesRequest ==
  op.name \in {"resolved", "rejected"}
    => wdata[op.w][op.id] # Request(op.r)
\* the entry of (w, k) is a request whose promise has completed
Stuck(w, k) ==
  /\ IsRequest(wdata[w][k])
  /\ reqs[wdata[w][k].r].status = "done"
\* C20 as amended: after the promise of a request resolved, or rejected
\* with an error other than the cancellation, the request is no longer the
\* entry of its uri. A rejection with the cancellation changes no tree and
\* fires nothing, so a request that was still the entry stays there; a
\* getDecoration for its uri then neither invokes the provider nor changes
\* the entry, and only a notification of the provider or the disposal of
\* the handle replaces it.
C20_PendingEndsUnlessCanceled ==
  /\ []((\/ op.name = "resolved"
         \/ op.name = "rejected" /\ op.err = "Other")
          => wdata[op.w][op.id] # Request(op.r))
  /\ [][(op'.name = "rejected" /\ op'.err = "Canceled")
          => /\ wdata' = wdata
             /\ fired' = <<>>
             /\ uriFired' = <<>>]_vars
  /\ [][\A w \in Wrappers : \A k \in Ids :
          Stuck(w, k)
            => /\ (op'.name = "getDecoration" /\ op'.id = k)
                    => <<w, k>> \notin Range(calls')
               /\ wdata'[w][k] # wdata[w][k]
                    => /\ op'.name \in {"change", "flush", "dispose"}
                       /\ op'.w = w]_vars
\* a promise rejected with the cancellation while its request, never
\* cancelled, was the entry of its uri: the request is still there
C20_Witness ==
  /\ op.name = "rejected"
  /\ op.err = "Canceled"
  /\ ~op.cancelled
  /\ wdata[op.w][op.id] = Request(op.r)

====
